---- MODULE Spec2Model ----
(***************************************************************************)
(* Marching squares (src/src/algorithms/marchingSquare.js).                *)
(*                                                                         *)
(* marchingSquare walks the cells of a grid of samples, classifies the     *)
(* four corners of each cell against isoValue, looks the code up in        *)
(* basicLineTable, resolves the two saddle codes by the mean of the        *)
(* corners, and pushes one segment per pair of the pattern, its endpoints  *)
(* placed by linear interpolation.                                         *)
(*                                                                         *)
(* Numbers: samples, isoValue, lngStart, latStart and gridSize are         *)
(* integers; every derived number is an exact fraction <<n, d>> in lowest  *)
(* terms with d > 0, or one of the non-finite values of a JavaScript       *)
(* number: <<1, 0>> (Infinity), <<-1, 0>> (-Infinity), <<0, 0>> (NaN).     *)
(* Indices are the source's (corners and edges 0..3, codes 0..15); a pair  *)
(* l of basicLines is a tuple, so the source's l[0], l[1] are l[1], l[2].  *)
(***************************************************************************)
EXTENDS Integers, Sequences, FiniteSets, TLC

VARIABLES discreteData, isoValue, lngStart, latStart, gridSize,
          columnN, rowN, squareMatrix, result, interpoValues, i, j, pc

vars == <<discreteData, isoValue, lngStart, latStart, gridSize,
          columnN, rowN, squareMatrix, result, interpoValues, i, j, pc>>

inputs == <<discreteData, isoValue, lngStart, latStart, gridSize>>

----------------------------------------------------------------------------
(* Bounds of the inputs *)

\* a single-cell grid has at most MaxSamples samples, each in 0..MaxVal
MaxSamples == 4
MaxVal == 3
\* a grid of the grid walk has at most MaxGridSamples samples
MaxGridSamples == 9
\* uniform shifts -MaxShift..MaxShift of samples and isoValue
MaxShift == 2

----------------------------------------------------------------------------
(* JavaScript numbers as exact fractions *)

Abs(n) == IF n < 0 THEN -n ELSE n

Sign(n) == IF n < 0 THEN -1 ELSE IF n > 0 THEN 1 ELSE 0

RECURSIVE Gcd(_, _)
Gcd(a, b) == IF b = 0 THEN a ELSE Gcd(b, a % b)

Norm(n, d) ==
    IF d = 0 THEN <<Sign(n), 0>>
    ELSE LET g == Gcd(Abs(n), Abs(d))
         IN  <<(Sign(d) * n) \div g, Abs(d) \div g>>

R(n) == <<n, 1>>

Infinity == <<1, 0>>
NaN == <<0, 0>>
Half == <<1, 2>>
One == <<1, 1>>

IsFinite(a) == a[2] # 0

\* a + b
RAdd(a, b) ==
    IF a[2] = 0 /\ b[2] = 0
    THEN (IF a = b THEN a ELSE NaN)
    ELSE Norm(a[1] * b[2] + b[1] * a[2], a[2] * b[2])

\* a - b
RSub(a, b) == RAdd(a, <<-b[1], b[2]>>)

\* a * b
RMul(a, b) == Norm(a[1] * b[1], a[2] * b[2])

\* a >= b (false when either is NaN)
RGeq(a, b) ==
    IF a = NaN \/ b = NaN THEN FALSE
    ELSE IF a[2] = 0 /\ b[2] = 0 THEN a[1] >= b[1]
    ELSE IF a[2] = 0 THEN a[1] > 0
    ELSE IF b[2] = 0 THEN b[1] < 0
    ELSE a[1] * b[2] >= b[1] * a[2]

----------------------------------------------------------------------------
(* Tables *)

\* basicLineTable with the entry of code 1 joining sides 0 and 1
basicLineTable_code1 ==
    [c \in 0..15 |->
        CASE c = 1 -> << <<0, 1>> >>
          [] c \in {2, 13} -> << <<0, 1>> >>
          [] c \in {3, 12} -> << <<1, 3>> >>
          [] c \in {4, 11} -> << <<1, 2>> >>
          [] c = 5 -> << <<0, 1>>, <<2, 3>> >>
          [] c \in {6, 9} -> << <<0, 2>> >>
          [] c \in {7, 8} -> << <<2, 3>> >>
          [] c = 10 -> << <<0, 3>>, <<1, 2>> >>
          [] c = 14 -> << <<0, 3>> >>
          [] OTHER -> <<>>]

basicLineTable ==
    [c \in 0..15 |->
        CASE c = 0  -> <<>>
          [] c = 1  -> << <<0, 3>> >>
          [] c = 2  -> << <<0, 1>> >>
          [] c = 3  -> << <<1, 3>> >>
          [] c = 4  -> << <<1, 2>> >>
          [] c = 5  -> << <<0, 1>>, <<2, 3>> >>
          [] c = 6  -> << <<0, 2>> >>
          [] c = 7  -> << <<2, 3>> >>
          [] c = 8  -> << <<2, 3>> >>
          [] c = 9  -> << <<0, 2>> >>
          [] c = 10 -> << <<0, 3>>, <<1, 2>> >>
          [] c = 11 -> << <<1, 2>> >>
          [] c = 12 -> << <<1, 3>> >>
          [] c = 13 -> << <<0, 1>> >>
          [] c = 14 -> << <<0, 3>> >>
          [] c = 15 -> <<>>]

\* lineEndPoints[e] = <<x, y>>
\* lineEndPoints holding the left or upper end of each side, not its middle
lineEndPoints_corner ==
    [e \in 0..3 |->
        CASE e = 0 -> <<R(0), One>>
          [] e = 1 -> <<One, R(0)>>
          [] e = 2 -> <<R(0), R(0)>>
          [] e = 3 -> <<R(0), R(0)>>]

\* lineEndPoints[e] = <<x, y>>
lineEndPoints ==
    [e \in 0..3 |->
        CASE e = 0 -> <<Half, One>>
          [] e = 1 -> <<One, Half>>
          [] e = 2 -> <<Half, R(0)>>
          [] e = 3 -> <<R(0), Half>>]

----------------------------------------------------------------------------
(* linearInterpolation and the methods of Square *)

\* linearInterpolation without the offset of v1 in the numerator
linearInterpolation_noOffset(v1, v2, v_iso) ==
    IF v2 = v1 THEN Infinity ELSE Norm(v_iso, v2 - v1)

linearInterpolation(v1, v2, v_iso) ==
    IF v2 = v1 THEN Infinity ELSE Norm(v_iso - v1, v2 - v1)

\* the four corners of cell (i, j): rows i+1, i+1, i, i and columns j, j+1, j+1, j
CornerValues(data, r, c) ==
    [k \in 0..3 |->
        CASE k = 0 -> data[r + 2][c + 1]
          [] k = 1 -> data[r + 2][c + 2]
          [] k = 2 -> data[r + 1][c + 2]
          [] k = 3 -> data[r + 1][c + 1]]

\* getCornerBinary comparing with >=
getCornerBinary_geq(cornerValue, iso) ==
    [k \in 0..3 |-> IF cornerValue[k] >= iso THEN 1 ELSE 0]

getCornerBinary(cornerValue, iso) ==
    [k \in 0..3 |-> IF cornerValue[k] > iso THEN 1 ELSE 0]

\* the sum with 2 * ind for 2 ** ind
CodeOf_times(cornerBinary) ==
    2 * cornerBinary[1] + 4 * cornerBinary[2] + 6 * cornerBinary[3]

\* sum of cornerBinary[ind] * 2 ** ind
CodeOf(cornerBinary) ==
    cornerBinary[0] + 2 * cornerBinary[1] + 4 * cornerBinary[2] + 8 * cornerBinary[3]

\* cornerValue.reduce((a, b) => a + b) / 4
MeanOf(cornerValue) ==
    Norm(cornerValue[0] + cornerValue[1] + cornerValue[2] + cornerValue[3], 4)

\* getBasicLines comparing the mean with > in the saddle cases
getBasicLines_gt(cornerValue, cornerBinary, iso) ==
    LET sum == CodeOf(cornerBinary)
        above == ~RGeq(R(iso), MeanOf(cornerValue))
    IN  IF sum = 5
        THEN (IF above THEN << <<0, 3>>, <<1, 2>> >> ELSE << <<0, 1>>, <<2, 3>> >>)
        ELSE IF sum = 10
        THEN (IF above THEN << <<0, 1>>, <<2, 3>> >> ELSE << <<0, 3>>, <<1, 2>> >>)
        ELSE basicLineTable[sum]

getBasicLines(cornerValue, cornerBinary, iso) ==
    LET sum == CodeOf(cornerBinary)
    IN  IF sum = 5
        THEN (IF RGeq(MeanOf(cornerValue), R(iso))
              THEN << <<0, 3>>, <<1, 2>> >>
              ELSE << <<0, 1>>, <<2, 3>> >>)
        ELSE IF sum = 10
        THEN (IF RGeq(MeanOf(cornerValue), R(iso))
              THEN << <<0, 1>>, <<2, 3>> >>
              ELSE << <<0, 3>>, <<1, 2>> >>)
        ELSE basicLineTable[sum]

\* flipping sides 1 and 3
FlippedSides_13 == {1, 3}

\* the sides whose interpolation value is flipped
FlippedSides == {1, 2}

\* interpoValues of getActualLines, after the flip
InterpoValues(cornerValue, iso) ==
    LET raw == [k \in 0..3 |->
                  linearInterpolation(cornerValue[k], cornerValue[(k + 1) % 4], iso)]
    IN  [k \in 0..3 |-> IF k \in FlippedSides THEN RSub(One, raw[k]) ELSE raw[k]]

\* one end of newLine: the point on side e of the square
EndPoint(sq, e, iv, lng, lat, length) ==
    << RAdd(R(lng),
            RMul(RAdd(RAdd(R(sq.column), lineEndPoints[e][1]),
                      IF e = 0 \/ e = 2 THEN iv[e] ELSE Half),
                 R(length))),
       RAdd(R(lat),
            RMul(RAdd(RAdd(R(sq.row), lineEndPoints[e][2]),
                      IF e = 1 \/ e = 3 THEN iv[e] ELSE Half),
                 R(length))) >>

\* getActualLines walking basicLines from its last pair to its first
getActualLines_reversed(sq, iv, lng, lat, length) ==
    [p \in 1..Len(sq.basicLines) |->
        LET l == sq.basicLines[Len(sq.basicLines) + 1 - p]
        IN  << EndPoint(sq, l[1], iv, lng, lat, length),
               EndPoint(sq, l[2], iv, lng, lat, length) >>]

\* the lines getActualLines pushes into result, in order
getActualLines(sq, iv, lng, lat, length) ==
    [p \in 1..Len(sq.basicLines) |->
        << EndPoint(sq, sq.basicLines[p][1], iv, lng, lat, length),
           EndPoint(sq, sq.basicLines[p][2], iv, lng, lat, length) >>]

\* the square of cell (row r, column c) after the three calls of the loop body
SquareOf(data, r, c, iso) ==
    LET cv == CornerValues(data, r, c)
        cb == getCornerBinary(cv, iso)
    IN  [column |-> c, row |-> r, cornerValue |-> cv, cornerBinary |-> cb,
         basicLines |-> getBasicLines(cv, cb, iso)]

\* result after the first n squares of the walk, rows first
RECURSIVE WalkCells(_, _, _, _, _, _)
WalkCells(data, iso, lng, lat, length, n) ==
    IF n = 0 THEN <<>>
    ELSE LET cols == Len(data[1]) - 1
             sq == SquareOf(data, (n - 1) \div cols, (n - 1) % cols, iso)
         IN  WalkCells(data, iso, lng, lat, length, n - 1)
               \o getActualLines(sq, InterpoValues(sq.cornerValue, iso), lng, lat, length)

\* the value marchingSquare returns, "TypeError" when it throws
marchingSquare(data, iso, lng, lat, length) ==
    IF Len(data) = 0 THEN "TypeError"
    ELSE IF Len(data) < 2 \/ Len(data[1]) < 2 THEN <<>>
    ELSE WalkCells(data, iso, lng, lat, length, (Len(data) - 1) * (Len(data[1]) - 1))

----------------------------------------------------------------------------
(* marchingSquare, one step at a time *)

\* the rectangular grids of at most maxSamples samples
Grids(maxSamples, samples) ==
    UNION {[1..rc[1] -> [1..rc[2] -> samples]] :
             rc \in {x \in (0..maxSamples) \X (0..maxSamples) :
                        x[1] * x[2] <= maxSamples}}

\* rows top to bottom: top-left 0, top-right 10, bottom-left 0, bottom-right 10
ExampleGrid == << <<0, 10>>, <<0, 10>> >>

Unset == <<>>

InitWith(grids, isos, lngs, lats, sizes) ==
    /\ discreteData \in grids
    /\ isoValue \in isos
    /\ lngStart \in lngs
    /\ latStart \in lats
    /\ gridSize \in sizes
    /\ columnN = 0
    /\ rowN = 0
    /\ squareMatrix = Unset
    /\ result = Unset
    /\ interpoValues = Unset
    /\ i = 0
    /\ j = 0
    /\ pc = "start"

\* grids of at most one cell over 0..MaxVal, and the example grid
Init ==
    InitWith(Grids(MaxSamples, 0..MaxVal) \cup {ExampleGrid},
             ((-1)..MaxVal) \cup {5}, {0, 1}, {3}, {1, 2})

\* grids of several cells over two sample values
InitGrid ==
    InitWith(Grids(MaxGridSamples, {0, 3}), {-1, 1, 2, 3}, {0}, {0}, {1})

\* line 25 throws: discreteData[0] is undefined when there is no row
EnterThrow ==
    /\ pc = "start"
    /\ Len(discreteData) = 0
    /\ pc' = "TypeError"
    /\ UNCHANGED <<inputs, columnN, rowN, squareMatrix, result, interpoValues, i, j>>

\* lines 25-28 and the initialisation of the outer loop
Enter ==
    /\ pc = "start"
    /\ Len(discreteData) > 0
    /\ columnN' = Len(discreteData[1])
    /\ rowN' = Len(discreteData)
    /\ squareMatrix' = <<>>
    /\ result' = <<>>
    /\ i' = 0
    /\ pc' = "rows"
    /\ UNCHANGED <<inputs, interpoValues, j>>

\* line 30-31: another row of squares
RowBegin ==
    /\ pc = "rows"
    /\ i < rowN - 1
    /\ squareMatrix' = Append(squareMatrix, <<>>)
    /\ j' = 0
    /\ pc' = "cols"
    /\ UNCHANGED <<inputs, columnN, rowN, result, interpoValues, i>>

\* lines 32-64: the body of the inner loop for square (i, j)
Cell ==
    /\ pc = "cols"
    /\ j < columnN - 1
    /\ LET sq == SquareOf(discreteData, i, j, isoValue)
           iv == InterpoValues(sq.cornerValue, isoValue)
       IN  /\ squareMatrix' =
                 [squareMatrix EXCEPT ![i + 1] = Append(@, sq)]
           /\ interpoValues' = iv
           /\ result' = result \o getActualLines(sq, iv, lngStart, latStart, gridSize)
    /\ j' = j + 1
    /\ UNCHANGED <<inputs, columnN, rowN, i, pc>>

\* line 32 fails, line 30 i++
RowEnd ==
    /\ pc = "cols"
    /\ ~(j < columnN - 1)
    /\ i' = i + 1
    /\ pc' = "rows"
    /\ UNCHANGED <<inputs, columnN, rowN, squareMatrix, result, interpoValues, j>>

\* line 30 fails, line 67
Return ==
    /\ pc = "rows"
    /\ ~(i < rowN - 1)
    /\ pc' = "done"
    /\ UNCHANGED <<inputs, columnN, rowN, squareMatrix, result, interpoValues, i, j>>

Next == EnterThrow \/ Enter \/ RowBegin \/ Cell \/ RowEnd \/ Return

Spec == Init /\ [][Next]_vars

SpecGrid == InitGrid /\ [][Next]_vars

----------------------------------------------------------------------------
(* Vocabulary of the properties *)

Rows == Len(discreteData)
Columns == IF Rows = 0 THEN 0 ELSE Len(discreteData[1])

AllSamples == UNION {{discreteData[r][c] : c \in 1..Len(discreteData[r])} : r \in 1..Rows}

\* every square constructed so far
AllSquares ==
    UNION {{squareMatrix[r][c] : c \in 1..Len(squareMatrix[r])} : r \in 1..Len(squareMatrix)}

\* the loop body has just run for square (i, j - 1)
JustProcessed == pc = "cols" /\ j > 0
LastSquare == squareMatrix[i + 1][j]
\* the lines that run of the loop body pushed
LastLines ==
    SubSeq(result, Len(result) - Len(LastSquare.basicLines) + 1, Len(result))

Above(cv, k) == cv[k] > isoValue
Bit(cv, k) == IF Above(cv, k) THEN 1 ELSE 0
CodeOfValues(cv) == Bit(cv, 0) + 2 * Bit(cv, 1) + 4 * Bit(cv, 2) + 8 * Bit(cv, 3)
SumOfValues(cv) == cv[0] + cv[1] + cv[2] + cv[3]
\* mean of the four corners >= isoValue, > isoValue, < isoValue
MeanGeq(cv) == SumOfValues(cv) >= 4 * isoValue
MeanGt(cv) == SumOfValues(cv) > 4 * isoValue
MeanLt(cv) == SumOfValues(cv) < 4 * isoValue

PairsOf(lines) == {lines[p] : p \in 1..Len(lines)}
\* the ends <<p, n>> of the pairs of a pattern that lie on edge e
EndsOn(lines, e) == {pn \in (1..Len(lines)) \X {1, 2} : lines[pn[1]][pn[2]] = e}
EdgesOf(lines) == {e \in 0..3 : EndsOn(lines, e) # {}}

InUnit(a) == IsFinite(a) /\ a[1] >= 0 /\ a[1] <= a[2]

CoordsOf(lines) ==
    UNION {{lines[p][1][1], lines[p][1][2], lines[p][2][1], lines[p][2][2]} :
             p \in 1..Len(lines)}

\* t_k = (isoValue - cornerValue[k]) / (cornerValue[(k+1) mod 4] - cornerValue[k])
Fraction(cv, k) == linearInterpolation(cv[k], cv[(k + 1) % 4], isoValue)

----------------------------------------------------------------------------
(* C1 *)

\* C1: a grid with fewer than 2 rows or fewer than 2 columns (0 or 1 of
\* either) makes marchingSquare return the empty sequence, without an error.
C1_DegenerateGridIsEmpty ==
    (Rows < 2 \/ Columns < 2) =>
        /\ pc # "TypeError"
        /\ pc = "done" => result = <<>>

----------------------------------------------------------------------------
(* C2 *)

\* C2: a square of code 5 has the pattern {(0,3),(1,2)} when the mean of its
\* corners is >= isoValue and {(0,1),(2,3)} otherwise; a square of code 10 has
\* {(0,1),(2,3)} when the mean is >= isoValue and {(0,3),(1,2)} otherwise.
C2_SaddleRule ==
    \A sq \in AllSquares :
        LET cv == sq.cornerValue
            code == CodeOfValues(cv)
        IN  /\ code = 5 =>
                 /\ Len(sq.basicLines) = 2
                 /\ PairsOf(sq.basicLines) =
                      IF MeanGeq(cv) THEN {<<0, 3>>, <<1, 2>>} ELSE {<<0, 1>>, <<2, 3>>}
            /\ code = 10 =>
                 /\ Len(sq.basicLines) = 2
                 /\ PairsOf(sq.basicLines) =
                      IF MeanGeq(cv) THEN {<<0, 1>>, <<2, 3>>} ELSE {<<0, 3>>, <<1, 2>>}

\* a square of code 5 whose mean is below isoValue gave two segments
C2_Witness ==
    /\ pc = "done"
    /\ Len(result) = 2
    /\ \E sq \in AllSquares :
          CodeOfValues(sq.cornerValue) = 5 /\ MeanLt(sq.cornerValue)

----------------------------------------------------------------------------
(* C3 *)

\* the bases of the edges: bottom, right, top, left
EdgeBase(e) ==
    CASE e = 0 -> <<Half, One>>
      [] e = 1 -> <<One, Half>>
      [] e = 2 -> <<Half, R(0)>>
      [] e = 3 -> <<R(0), Half>>

\* lngStart + a * gridSize, latStart + b * gridSize
World(a, b) ==
    << RAdd(R(lngStart), RMul(a, R(gridSize))),
       RAdd(R(latStart), RMul(b, R(gridSize))) >>

\* the projection as claimed: the fraction along the edge, the base across it
ProjectionClaimed(sq, e, t) ==
    IF e \in {0, 2}
    THEN World(RAdd(R(sq.column), t), RAdd(R(sq.row), EdgeBase(e)[2]))
    ELSE World(RAdd(R(sq.column), EdgeBase(e)[1]), RAdd(R(sq.row), t))

\* the same, moved by half a cell along both axes
ProjectionShifted(sq, e, t) ==
    IF e \in {0, 2}
    THEN World(RAdd(RAdd(R(sq.column), Half), t),
               RAdd(RAdd(R(sq.row), EdgeBase(e)[2]), Half))
    ELSE World(RAdd(RAdd(R(sq.column), EdgeBase(e)[1]), Half),
               RAdd(RAdd(R(sq.row), Half), t))

IsExample == discreteData = ExampleGrid /\ isoValue = 5

\* C3 as stated: each end of each pushed line is ProjectionClaimed of its edge
\* and of the edge's value in interpoValues, and the example's single segment
\* joins the midpoints of the bottom and the top edge of the cell.
C3_ProjectionAsClaimed ==
    /\ JustProcessed =>
         \A p \in 1..Len(LastSquare.basicLines) :
            LET l == LastSquare.basicLines[p]
            IN  LastLines[p] =
                  << ProjectionClaimed(LastSquare, l[1], interpoValues[l[1]]),
                     ProjectionClaimed(LastSquare, l[2], interpoValues[l[2]]) >>
    /\ (pc = "done" /\ IsExample) =>
         result = << << World(Half, One), World(Half, R(0)) >> >>

\* C3 (amended): each end of each pushed line lies half a cell further along
\* both axes than claimed: for e in {0,2}, x = lngStart + (col + 0.5 + t)*gridSize
\* and y = latStart + (row + baseY + 0.5)*gridSize; for e in {1,3},
\* x = lngStart + (col + baseX + 0.5)*gridSize and y = latStart + (row + 0.5 + t)*gridSize;
\* the example's segment joins (lngStart + gridSize, latStart + 1.5*gridSize)
\* and (lngStart + gridSize, latStart + 0.5*gridSize).
C3_ProjectionShifted ==
    /\ JustProcessed =>
         \A p \in 1..Len(LastSquare.basicLines) :
            LET l == LastSquare.basicLines[p]
            IN  LastLines[p] =
                  << ProjectionShifted(LastSquare, l[1], interpoValues[l[1]]),
                     ProjectionShifted(LastSquare, l[2], interpoValues[l[2]]) >>
    /\ (pc = "done" /\ IsExample) =>
         result = << << World(One, <<3, 2>>), World(One, Half) >> >>

\* a line from a horizontal to a vertical edge, neither crossing at the
\* middle, on a grid with an offset origin and cells of size 2
C3_Witness ==
    /\ JustProcessed
    /\ lngStart = 1 /\ latStart = 3 /\ gridSize = 2
    /\ \E p \in 1..Len(LastSquare.basicLines) :
          LET l == LastSquare.basicLines[p]
          IN  /\ l[1] \in {0, 2} /\ l[2] \in {1, 3}
              /\ interpoValues[l[1]] \notin {Half, R(0), One}
              /\ interpoValues[l[2]] \notin {Half, R(0), One}

----------------------------------------------------------------------------
(* C4 *)

\* C4 as stated: interpoValues holds 1 - t_k for the edges 1 and 3 and t_k
\* for the edges 0 and 2.
C4_Reflects13 ==
    JustProcessed =>
        interpoValues =
            [k \in 0..3 |->
                IF k \in {1, 3}
                THEN RSub(One, Fraction(LastSquare.cornerValue, k))
                ELSE Fraction(LastSquare.cornerValue, k)]

\* C4 (amended): interpoValues holds 1 - t_k for the edges 1 and 2 and t_k
\* for the edges 0 and 3.
C4_Reflects12 ==
    JustProcessed =>
        interpoValues =
            [k \in 0..3 |->
                IF k \in {1, 2}
                THEN RSub(One, Fraction(LastSquare.cornerValue, k))
                ELSE Fraction(LastSquare.cornerValue, k)]

\* a line joining the edges 2 and 3, whose fractions are finite and not 1/2
C4_Witness ==
    /\ JustProcessed
    /\ <<2, 3>> \in PairsOf(LastSquare.basicLines)
    /\ IsFinite(Fraction(LastSquare.cornerValue, 2))
    /\ IsFinite(Fraction(LastSquare.cornerValue, 3))
    /\ Fraction(LastSquare.cornerValue, 2) # Half
    /\ Fraction(LastSquare.cornerValue, 3) # Half

----------------------------------------------------------------------------
(* C5 *)

EqualEdges(cv) == {k \in 0..3 : cv[k] = cv[(k + 1) % 4]}

\* C5 as stated: when two adjacent corners of a square are equal, a
\* coordinate of a line pushed for the square is not finite.
C5_InfinityInOutput ==
    (JustProcessed /\ EqualEdges(LastSquare.cornerValue) # {}) =>
        \E x \in CoordsOf(LastLines) : ~IsFinite(x)

\* C5 (amended): when two adjacent corners k, k+1 of a square are equal, the
\* fraction of edge k is Infinity (-Infinity once reflected) but edge k is in
\* no pair of the square's pattern, and every coordinate of every line of
\* result is finite; no error is raised.
C5_InfinityUnused ==
    /\ JustProcessed =>
         \A k \in EqualEdges(LastSquare.cornerValue) :
            /\ Fraction(LastSquare.cornerValue, k) = Infinity
            /\ ~IsFinite(interpoValues[k])
            /\ k \notin EdgesOf(LastSquare.basicLines)
    /\ \A x \in CoordsOf(result) : IsFinite(x)
    /\ AllSquares # {} => pc # "TypeError"

\* a line was pushed for a square with two equal adjacent corners
C5_Witness ==
    /\ JustProcessed
    /\ EqualEdges(LastSquare.cornerValue) # {}
    /\ Len(LastLines) >= 1

----------------------------------------------------------------------------
(* C6 *)

IsoAboveAll == AllSamples # {} /\ \A v \in AllSamples : isoValue > v
IsoBelowAll == AllSamples # {} /\ \A v \in AllSamples : isoValue < v

----------------------------------------------------------------------------
(* C7 *)

\* Table 1
Table1(code) ==
    CASE code \in {0, 15} -> <<>>
      [] code \in {1, 14} -> << <<0, 3>> >>
      [] code \in {2, 13} -> << <<0, 1>> >>
      [] code \in {3, 12} -> << <<1, 3>> >>
      [] code \in {4, 11} -> << <<1, 2>> >>
      [] code = 5 -> << <<0, 1>>, <<2, 3>> >>
      [] code \in {6, 9} -> << <<0, 2>> >>
      [] code \in {7, 8} -> << <<2, 3>> >>
      [] code = 10 -> << <<0, 3>>, <<1, 2>> >>

\* the final pattern of a cell: Table 1, the saddle codes by the mean
FinalPattern(cv) ==
    LET code == CodeOfValues(cv)
    IN  IF code = 5
        THEN (IF MeanGeq(cv) THEN << <<0, 3>>, <<1, 2>> >> ELSE << <<0, 1>>, <<2, 3>> >>)
        ELSE IF code = 10
        THEN (IF MeanGeq(cv) THEN << <<0, 1>>, <<2, 3>> >> ELSE << <<0, 3>>, <<1, 2>> >>)
        ELSE Table1(code)

SegmentCount(code) == IF code \in {0, 15} THEN 0 ELSE IF code \in {5, 10} THEN 2 ELSE 1

\* one segment per pair of the cell's final pattern, in pattern order
CellSegments(r, c) ==
    LET cv == CornerValues(discreteData, r, c)
        pat == FinalPattern(cv)
        sq == [column |-> c, row |-> r]
        iv == InterpoValues(cv, isoValue)
    IN  [p \in 1..Len(pat) |->
            << EndPoint(sq, pat[p][1], iv, lngStart, latStart, gridSize),
               EndPoint(sq, pat[p][2], iv, lngStart, latStart, gridSize) >>]

\* the segments of the first n cells in row-major order
RECURSIVE RowMajor(_)
RowMajor(n) ==
    IF n = 0 THEN <<>>
    ELSE RowMajor(n - 1) \o CellSegments((n - 1) \div (Columns - 1), (n - 1) % (Columns - 1))

CellCount == IF Rows < 2 \/ Columns < 2 THEN 0 ELSE (Rows - 1) * (Columns - 1)

\* C7: the result returned is the concatenation, over the cells in row-major
\* order, of one segment per pair of the cell's final pattern in pattern
\* order; a square of code 0 or 15 has no pair, one of code 5 or 10 two, and
\* any other exactly the pair of Table 1.
C7_RowMajorConcatenation ==
    /\ pc = "done" => result = RowMajor(CellCount)
    /\ \A sq \in AllSquares :
          LET code == CodeOfValues(sq.cornerValue)
          IN  /\ sq.cornerValue = CornerValues(discreteData, sq.row, sq.column)
              /\ Len(sq.basicLines) = SegmentCount(code)
              /\ SegmentCount(code) = 1 => sq.basicLines = Table1(code)

\* a grid of four cells: the first with two segments, the second and the
\* last with one
C7_Witness ==
    /\ pc = "done"
    /\ Rows = 3 /\ Columns = 3
    /\ Len(squareMatrix[1][1].basicLines) = 2
    /\ Len(squareMatrix[1][2].basicLines) = 1
    /\ Len(squareMatrix[2][2].basicLines) = 1
    /\ Len(result) >= 4

----------------------------------------------------------------------------
(* C8 *)

Shifts == ((-MaxShift)..MaxShift) \ {0}

ShiftGrid(data, k) ==
    [r \in DOMAIN data |-> [c \in DOMAIN data[r] |-> data[r][c] + k]]

\* what marchingSquare returns for the grid and isoValue shifted by k
ShiftedReturn(k) ==
    marchingSquare(ShiftGrid(discreteData, k), isoValue + k, lngStart, latStart, gridSize)

\* C8: the result returned equals, segment by segment, the result for the
\* grid with k added to every sample and to isoValue (lngStart, latStart and
\* gridSize kept); the call throws exactly when the shifted call does.
C8_ShiftInvariance ==
    \A k \in Shifts :
        /\ pc = "done" => ShiftedReturn(k) = result
        /\ pc = "TypeError" => ShiftedReturn(k) = "TypeError"

\* a returned segment with an end that is not at the middle of its edge
C8_Witness ==
    /\ pc = "done"
    /\ Len(result) >= 1
    /\ \E e \in EdgesOf(squareMatrix[1][1].basicLines) :
          interpoValues[e] \notin {Half, R(0), One}

----------------------------------------------------------------------------
(* C9 *)

\* the corner two adjacent edges share: the one a line joining them cuts off
SharedCorner(l) == IF (l[1] + 1) % 4 = l[2] THEN l[2] ELSE l[1]

\* C9: in a square of code 5 or 10, when the mean of the corners is above
\* isoValue each line cuts off a corner that is not above isoValue, and when
\* the mean is below isoValue each line cuts off a corner that is above it.
C9_SaddleTopology ==
    \A sq \in AllSquares :
        LET cv == sq.cornerValue
        IN  CodeOfValues(cv) \in {5, 10} =>
              /\ MeanGt(cv) =>
                   \A l \in PairsOf(sq.basicLines) : ~Above(cv, SharedCorner(l))
              /\ MeanLt(cv) =>
                   \A l \in PairsOf(sq.basicLines) : Above(cv, SharedCorner(l))

----------------------------------------------------------------------------
(* C10 *)

Crossed(cv, e) == Above(cv, e) # Above(cv, (e + 1) % 4)

\* C10: every edge of a square's final pattern has exactly one of its two
\* corners above isoValue, every edge with exactly one corner above isoValue
\* is an end of exactly one pair, and the fraction of every edge of the
\* pattern is finite and in [0, 1], before and after the reflection.
C10_CrossedEdges ==
    /\ \A sq \in AllSquares :
          LET cv == sq.cornerValue
          IN  \A e \in 0..3 :
                 /\ e \in EdgesOf(sq.basicLines) => Crossed(cv, e)
                 /\ Crossed(cv, e) => Cardinality(EndsOn(sq.basicLines, e)) = 1
                 /\ e \in EdgesOf(sq.basicLines) =>
                      /\ InUnit(Fraction(cv, e))
                      /\ InUnit(RSub(One, Fraction(cv, e)))
    /\ JustProcessed =>
         \A e \in EdgesOf(LastSquare.basicLines) : InUnit(interpoValues[e])

\* a saddle square: all four edges crossed, two of them at a corner
C10_Witness ==
    /\ JustProcessed
    /\ EdgesOf(LastSquare.basicLines) = 0..3
    /\ \E e \in 0..3 : interpoValues[e] \in {R(0), One}
    /\ \E e \in 0..3 : interpoValues[e] \notin {R(0), One, Half}

====
